---------------------------- MODULE Spec2Model ----------------------------
(***************************************************************************)
(* Candle pipeline of the trading chart (frontend/src/App.js, chart-util   *)
(* part, frontend/src/components/EnhancedTradingChart.js and               *)
(* src/utils/indicators.js).                                               *)
(*                                                                         *)
(* Nine specifications share this module:                                 *)
(*   SpecV     sanitizeAndValidate applied to bounded raw row lists        *)
(*   SpecT     parseApiTimeToSeconds applied to raw times and to the       *)
(*             encodings of one instant                                    *)
(*   SpecM     generateMockData and its result passed to sanitizeAndValidate *)
(*   SpecI     calculateSMA, calculateRSI and calculateOBV                 *)
(*             (utils/indicators.js) on bounded series                     *)
(*   SpecCo    one coalescer (createCoalescer) driven by enqueue, timer    *)
(*             expiry and forceFlush                                       *)
(*   Spec      the EnhancedTradingChart component in one session: history  *)
(*             load, WebSocket lifecycle, live candles, coalescer flush    *)
(*             handler and indicator recomputation                         *)
(*   SpecConn  the component's sessions (effect re-runs), sockets and      *)
(*             reconnect controller                                        *)
(*   SpecRetry one session of the component with its reconnect controller, *)
(*             under the event loop's guarantee that an expired timeout    *)
(*             runs                                                        *)
(*   SpecAdv   the sockets and the reconnect controller of AdvancedChart   *)
(*             (frontend/src/components/AdvancedChart.js)                  *)
(*                                                                         *)
(* JavaScript values are records tagged by t.  A price is counted in       *)
(* thousandths (mills): 100.25 is 100250.  A time given as a JS number is  *)
(* kept as q*1000 + r (fields q, r) because millisecond timestamps do not  *)
(* fit TLC's 32-bit integers.                                              *)
(***************************************************************************)
EXTENDS Integers, Sequences, FiniteSets, TLC

VARIABLES
  \* --- SpecV, SpecT, SpecM, SpecI: a pure function applied to an argument
  vin,          \* the argument: rawArray of sanitizeAndValidate, rawTime of
                \* parseApiTimeToSeconds, days (with the clock and the random
                \* results) of generateMockData, data and period of an indicator
  vout,         \* the result
  vdone,        \* TRUE once the function has run
  \* --- SpecCo and Spec
  co,           \* the coalescer: its buffer, its timer variable, the timeouts pending
  \* --- SpecCo
  coApplied,    \* the last call of applyFn: the batch, the buffer it was made from,
                \* and what applyFn did
  coOp,         \* the last coalescer operation
  \* --- Spec: EnhancedTradingChart
  life,         \* "mounted", "rerun" (between an effect's cleanup and its re-run), "unmounted"
  mountedRef,   \* mountedRef.current
  sess,         \* number of runs of the initChart effect so far; the current session
  tokenOf,      \* per session: whether its sessionToken is non-empty
  initPc,       \* per session: where its initChart() is
  connTimer,    \* per session: whether its 500 ms initial-connect timeout is pending
  seriesRef,    \* chartRef.current / seriesRef.current: the series and its last bar time
  chartReady,   \* React state chartReady
  status,       \* React state status
  chartDataRef, \* chartDataRef.current
  lastTimeRef,  \* lastTimeRef.current
  conn,         \* wsRef, the sockets, reconnectRef and the reconnect timeouts pending
  activeIndicators, \* React state activeIndicators
  indCalc,      \* per indicator: the series and parameters its output was last computed from
  indTimer,     \* whether the 50 ms timeout of the indicator effect is pending
  nMsgs,        \* live messages delivered so far
  lib,          \* how the charting library build answers misuse
  lastEv        \* the last handler that ran

vVars == <<vin, vout, vdone>>
coVars == <<co, coApplied, coOp>>
chVars == <<life, mountedRef, sess, tokenOf, initPc, connTimer, seriesRef, chartReady,
            status, chartDataRef, lastTimeRef, conn, activeIndicators, indCalc, indTimer,
            nMsgs, lib, lastEv>>
vars == <<vVars, coVars, chVars>>

-----------------------------------------------------------------------------
(* JavaScript values                                                       *)

JUndef == [t |-> "undefined"]
JNull == [t |-> "null"]
JNaN == [t |-> "nan"]
JInf == [t |-> "inf"]
\* a string that is neither a number nor a date
JStr == [t |-> "str"]
Num(v) == [t |-> "num", v |-> v]
\* a number too wide for one integer: q*1000 + r, 0 <= r < 1000
Big(q, r) == [t |-> "num", q |-> q, r |-> r]
\* "DD-MM-YYYY HH:mm:ss"
Dmy(dd, mm, yyyy, hh, mi, ss) ==
  [t |-> "dmy", dd |-> dd, mm |-> mm, yyyy |-> yyyy, hh |-> hh, mi |-> mi, ss |-> ss]
\* "YYYY-MM-DDTHH:mm:ssZ"
Iso(d) == [d EXCEPT !.t = "iso"]
\* a string of decimal digits spelling q*1000 + r.  What Date.parse makes of such a
\* string is left to the engine (ECMA-262 21.4.3.2): dp is its answer in seconds,
\* JNaN or a date the engine reads the digits as.
Digits(q, r, dp) == [t |-> "digits", q |-> q, r |-> r, dp |-> dp]

\* a ?? b
Nullish(a, b) == IF a.t \in {"undefined", "null"} THEN b ELSE a

\* Number(x) of a price field: undefined and non-numeric strings give NaN, null gives 0
Number(x) ==
  CASE x.t = "num" -> x
    [] x.t = "null" -> Num(0)
    [] x.t = "inf" -> JInf
    [] OTHER -> JNaN

NumberIsFinite(x) == x.t = "num"

\* Number(x.toFixed(2)): to the nearest hundredth, here the nearest 10 mills.
\* Half-way inputs (a 5 in the mills digit) go by the binary expansion in JS and
\* are kept out of the inputs.
ToFixed2(x) ==
  IF x.t # "num" THEN x
  ELSE IF x.v >= 0 THEN Num(((x.v + 5) \div 10) * 10)
  ELSE Num(0 - (((0 - x.v) + 5) \div 10) * 10)

MathMax(a, b) == IF a >= b THEN a ELSE b
MathMin(a, b) == IF a <= b THEN a ELSE b

-----------------------------------------------------------------------------
(* parseApiTimeToSeconds (App.js 42-71)                                    *)

IsLeap(y) == (y % 4 = 0 /\ y % 100 # 0) \/ y % 400 = 0

DaysInMonth(y, m) ==
  CASE m \in {1, 3, 5, 7, 8, 10, 12} -> 31
    [] m \in {4, 6, 9, 11} -> 30
    [] OTHER -> IF IsLeap(y) THEN 29 ELSE 28

\* days from 1970-01-01 to the civil date
DaysFromCivil(yyyy, mm, dd) ==
  LET y == IF mm <= 2 THEN yyyy - 1 ELSE yyyy
      era == y \div 400
      yoe == y - era * 400
      mp == IF mm > 2 THEN mm - 3 ELSE mm + 9
      doy == (153 * mp + 2) \div 5 + dd - 1
      doe == yoe * 365 + yoe \div 4 - yoe \div 100 + doy
  IN  era * 146097 + doe - 719468

\* Date.parse of `${yyyy}-${mm}-${dd}T${hh}:${min}:${ss}Z`, in seconds; NaN for a
\* field out of range
DateParseIso(d) ==
  IF /\ d.mm \in 1..12
     /\ d.dd \in 1..DaysInMonth(d.yyyy, d.mm)
     /\ d.hh \in 0..23 /\ d.mi \in 0..59 /\ d.ss \in 0..59
  THEN Num(DaysFromCivil(d.yyyy, d.mm, d.dd) * 86400 + d.hh * 3600 + d.mi * 60 + d.ss)
  ELSE JNaN

\* rawTime > 1e12 and rawTime > 1e9 on a q*1000 + r number
Gt1e12(n) == n.q > 1000000000 \/ (n.q = 1000000000 /\ n.r > 0)
\* a seconds threshold of 1e10
Gt1e9_As1e10(n) == n.q > 10000000 \/ (n.q = 10000000 /\ n.r > 0)
Gt1e9(n) == n.q > 1000000 \/ (n.q = 1000000 /\ n.r > 0)

\* Math.floor(rawTime) of an integer rawTime (line 50): itself, as one integer when
\* it fits
MathFloor(n) == IF n.q <= 2147482 THEN Num(n.q * 1000 + n.r) ELSE n

parseApiTimeToSeconds(rawTime) ==
  CASE rawTime.t \in {"undefined", "null"} -> JNull
    [] rawTime.t = "num" ->
         IF Gt1e12(rawTime) THEN Num(rawTime.q)
         ELSE IF Gt1e9(rawTime) THEN MathFloor(rawTime)
         ELSE JNull
    \* Infinity > 1e12, Math.floor(Infinity / 1000)
    [] rawTime.t = "inf" -> JInf
    [] rawTime.t \in {"dmy", "iso"} ->
         LET p == DateParseIso(rawTime) IN IF p.t = "num" THEN p ELSE JNull
    \* no DD-MM-YYYY match: Date.parse(rawTime) (lines 67-68)
    [] rawTime.t = "digits" -> IF rawTime.dp.t = "num" THEN rawTime.dp ELSE JNull
    [] OTHER -> JNull

-----------------------------------------------------------------------------
(* sanitizeAndValidate (App.js 73-126)                                     *)

\* one raw row; obj = FALSE is a row that is not an object (reading a field throws)
BlankRow ==
  [obj |-> TRUE,
   time |-> JUndef, datetime |-> JUndef, timestamp |-> JUndef, t |-> JUndef,
   open |-> JUndef, o |-> JUndef, O |-> JUndef,
   high |-> JUndef, h |-> JUndef, H |-> JUndef,
   low |-> JUndef, l |-> JUndef, L |-> JUndef,
   close |-> JUndef, c |-> JUndef, C |-> JUndef]

NullRow == [BlankRow EXCEPT !.obj = FALSE]

\* the five parsed fields of a row (lines 83-87)
RowParsed(r) ==
  [time |-> parseApiTimeToSeconds(
              Nullish(r.time, Nullish(r.datetime, Nullish(r.timestamp, r.t)))),
   open |-> Number(Nullish(r.open, Nullish(r.o, r.O))),
   high |-> Number(Nullish(r.high, Nullish(r.h, r.H))),
   low |-> Number(Nullish(r.low, Nullish(r.l, r.L))),
   close |-> Number(Nullish(r.close, Nullish(r.c, r.C)))]

\* isValid && ohlc_ok (lines 89-97); a non-object row throws and is caught (111)
RowIsValid(r) ==
  /\ r.obj
  /\ LET p == RowParsed(r) IN
       /\ p.time.t # "null"
       /\ NumberIsFinite(p.open) /\ NumberIsFinite(p.high)
       /\ NumberIsFinite(p.low) /\ NumberIsFinite(p.close)
       /\ p.high.v >= MathMax(p.open.v, p.close.v)
       /\ p.low.v <= MathMin(p.open.v, p.close.v)

\* the candle pushed for a valid row (lines 104-110)
RowCandle(r) ==
  LET p == RowParsed(r) IN
    [time |-> p.time.v,
     open |-> ToFixed2(p.open), high |-> ToFixed2(p.high),
     low |-> ToFixed2(p.low), close |-> ToFixed2(p.close)]

RECURSIVE ValidRows(_)
ValidRows(rows) ==
  IF rows = <<>> THEN <<>>
  ELSE (IF RowIsValid(Head(rows)) THEN <<RowCandle(Head(rows))>> ELSE <<>>)
       \o ValidRows(Tail(rows))

\* Array.prototype.sort((a, b) => a.time - b.time): stable (ES2019)
RECURSIVE InsertByTime(_, _)
InsertByTime(sorted, x) ==
  IF sorted = <<>> THEN <<x>>
  ELSE IF Head(sorted).time <= x.time
       THEN <<Head(sorted)>> \o InsertByTime(Tail(sorted), x)
       ELSE <<x>> \o sorted

RECURSIVE SortByTime(_)
SortByTime(s) ==
  IF s = <<>> THEN <<>>
  ELSE InsertByTime(SortByTime(SubSeq(s, 1, Len(s) - 1)), s[Len(s)])

\* Map.prototype.set keyed by item.time: an existing key keeps its place and takes
\* the new value, a new key is appended
RECURSIVE MapSet(_, _)
MapSet(m, item) ==
  IF m = <<>> THEN <<item>>
  ELSE IF Head(m).time = item.time THEN <<item>> \o Tail(m)
  ELSE <<Head(m)>> \o MapSet(Tail(m), item)

\* items.forEach(it => map.set(it.time, it)); Array.from(map.values())
RECURSIVE MapOfItems(_)
MapOfItems(items) ==
  IF items = <<>> THEN <<>>
  ELSE MapSet(MapOfItems(SubSeq(items, 1, Len(items) - 1)), items[Len(items)])

\* a dedupe that keeps the first row of a time
RECURSIVE MapOfItemsFirstWins(_)
MapOfItemsFirstWins(items) ==
  IF items = <<>> THEN <<>>
  ELSE LET m == MapOfItemsFirstWins(SubSeq(items, 1, Len(items) - 1))
           it == items[Len(items)]
       IN  IF \E k \in DOMAIN m : m[k].time = it.time THEN m ELSE Append(m, it)

sanitizeAndValidate_FirstWins(rawArray) ==
  SortByTime(MapOfItemsFirstWins(SortByTime(ValidRows(rawArray))))

sanitizeAndValidate(rawArray) ==
  SortByTime(MapOfItems(SortByTime(ValidRows(rawArray))))

-----------------------------------------------------------------------------
(* generateMockData (App.js 128-147)                                       *)

\* One candle from four Math.random() results, each given in thousandths (0..999)
MockCandle(time, d) ==
  LET price == 3000000 + d[1] * 100
      open == MathMax(1000, price)
      close == MathMax(1000, price + (d[2] - 500) * 30)
      high == MathMax(open, close) + d[3] * 50
      low == MathMin(open, close) - d[4] * 50
  IN  [time |-> time,
       open |-> ToFixed2(Num(open)), high |-> ToFixed2(Num(high)),
       low |-> ToFixed2(Num(MathMax(1000, low))), close |-> ToFixed2(Num(close))]

\* a generator that walks back in time
generateMockData_Descending(days, nowSec, draws) ==
  LET baseTime == nowSec - days * 86400
  IN  [i \in 1..days |-> MockCandle(baseTime - (i - 1) * 86400, draws[i])]

\* nowSec is Math.floor(Date.now() / 1000); draws[i] are the random results of day i
generateMockData(days, nowSec, draws) ==
  LET baseTime == nowSec - days * 86400
  IN  [i \in 1..days |-> MockCandle(baseTime + (i - 1) * 86400, draws[i])]

-----------------------------------------------------------------------------
(* createCoalescer (App.js 155-180)                                        *)

\* let buffer = []; let timer = null; pending holds the handles of the timeouts
\* that setTimeout armed and that have neither fired nor been cleared
NewCoalescer == [buffer |-> <<>>, timer |-> 0, pending |-> {}]

\* setTimeout returns a handle that no pending timeout carries
NewHandle(pending) == CHOOSE h \in 1..(Cardinality(pending) + 1) : h \notin pending

\* a flush that forgets the sort
FlushItems_Unsorted(buffer) == MapOfItems(buffer)

\* the batch flush hands to applyFn (lines 160-162)
FlushItems(buffer) == SortByTime(MapOfItems(buffer))

\* flush(): buffer = []; timer = null (lines 163-164)
Flushed(c) == [c EXCEPT !.buffer = <<>>, !.timer = 0]

\* an enqueue that re-arms the timer for every item
Enqueued_Rearm(c, item) ==
  LET h == NewHandle(c.pending) IN
    [buffer |-> Append(c.buffer, item), timer |-> h,
     pending |-> (c.pending \ {c.timer}) \cup {h}]

\* enqueue(item) (lines 169-174)
Enqueued(c, item) ==
  IF c.timer = 0
  THEN LET h == NewHandle(c.pending) IN
         [buffer |-> Append(c.buffer, item), timer |-> h, pending |-> c.pending \cup {h}]
  ELSE [c EXCEPT !.buffer = Append(c.buffer, item)]

\* a forceFlush that leaves the timeout pending
TimerCleared_Leak(c) == c

\* clearTimeout(timer) of forceFlush (line 176)
TimerCleared(c) == IF c.timer # 0 THEN [c EXCEPT !.pending = c.pending \ {c.timer}] ELSE c

-----------------------------------------------------------------------------
(* EnhancedTradingChart: reconnect controller (EnhancedTradingChart.js 468-548) *)

MaxSockets == 2

NoSocket == [st |-> "none", sess |-> 0]

\* useRef({ attempts: 0, timer: null, backoff: 1000 }) (line 45); wsRef = null (44).
\* rk and lastDelay record the scheduleReconnect calls since the last reset and the
\* delay the last one armed; opened records that a socket has opened and none has
\* closed since.
NewConn ==
  [wsRef |-> 0,
   sockets |-> [i \in 1..MaxSockets |-> NoSocket],
   attempts |-> 0, timer |-> 0, backoff |-> 1000,
   rtimers |-> {},
   rk |-> 0, lastDelay |-> 0, opened |-> FALSE]

\* a delay without the cap
ReconnectDelay_NoCap(backoff, attempts) == backoff * 2 ^ (attempts - 1)

\* Math.min(30000, info.backoff * Math.pow(2, info.attempts - 1)) after the increment
ReconnectDelay(backoff, attempts) == MathMin(30000, backoff * 2 ^ (attempts - 1))

\* a controller that gives up after five attempts
scheduleReconnect_GivesUp(c, mounted, s) ==
  IF ~mounted \/ c.attempts >= 5 THEN c
  ELSE LET attempts == c.attempts + 1
           backoff == ReconnectDelay(c.backoff, attempts)
           left == {x \in c.rtimers : x.h # c.timer}
           h == CHOOSE n \in 1..(Cardinality(left) + 1) : \A x \in left : x.h # n
       IN  [c EXCEPT !.attempts = attempts,
                     !.timer = h,
                     !.rtimers = left \cup {[h |-> h, delay |-> backoff, sess |-> s]},
                     !.rk = c.rk + 1,
                     !.lastDelay = backoff]

\* scheduleReconnect() called from a handler of session s (lines 532-548)
scheduleReconnect(c, mounted, s) ==
  IF ~mounted THEN c
  ELSE LET attempts == c.attempts + 1
           backoff == ReconnectDelay(c.backoff, attempts)
           left == {x \in c.rtimers : x.h # c.timer}
           h == CHOOSE n \in 1..(Cardinality(left) + 1) : \A x \in left : x.h # n
       IN  [c EXCEPT !.attempts = attempts,
                     !.timer = h,
                     !.rtimers = left \cup {[h |-> h, delay |-> backoff, sess |-> s]},
                     !.rk = c.rk + 1,
                     !.lastDelay = backoff]

FreeSlots(c) == {i \in 1..MaxSockets : c.sockets[i].st \in {"none", "closed"}}

\* connectWebSocket() of session s (lines 468-517); throws: new WebSocket(url) threw
connectWebSocket(c, mounted, hasToken, s, throws) ==
  IF ~hasToken \/ ~mounted THEN c
  ELSE IF throws THEN scheduleReconnect(c, mounted, s)
  ELSE LET id == CHOOSE i \in FreeSlots(c) : TRUE IN
         [c EXCEPT !.sockets[id] = [st |-> "connecting", sess |-> s], !.wsRef = id]

\* disconnectWebSocket() (lines 519-530)
disconnectWebSocket(c) ==
  LET closed ==
        IF c.wsRef # 0
        THEN [c EXCEPT !.sockets[c.wsRef].st =
                         IF @ \in {"connecting", "open"} THEN "closing" ELSE @,
                       !.wsRef = 0]
        ELSE c
  IN  IF closed.timer # 0
      THEN [closed EXCEPT !.rtimers = {x \in closed.rtimers : x.h # closed.timer},
                          !.timer = 0]
      ELSE closed

\* ws.onopen (lines 481-487), without the status change
OnOpenReset(c) == [c EXCEPT !.attempts = 0, !.backoff = 1000, !.rk = 0]

-----------------------------------------------------------------------------
(* EnhancedTradingChart: live candles (lines 56-72, 550-579)               *)

\* JS truthiness of a raw time field, for p.time || p.timestamp
Truthy(x) ==
  CASE x.t \in {"undefined", "null"} -> FALSE
    [] x.t = "num" -> x.q # 0 \/ x.r # 0
    [] OTHER -> TRUE

\* normalizeIncoming(p): JNull or a candle (lines 550-570)
normalizeIncoming(p) ==
  IF ~p.obj THEN JNull
  ELSE LET time == parseApiTimeToSeconds(IF Truthy(p.time) THEN p.time ELSE p.timestamp)
           open == Number(p.open)
           high == Number(p.high)
           low == Number(p.low)
           close == Number(p.close)
       IN  IF time.t = "null" \/ time.v = 0 \/ ~NumberIsFinite(open) THEN JNull
           ELSE [t |-> "candle",
                 time |-> time.v,
                 open |-> ToFixed2(open), high |-> ToFixed2(high),
                 low |-> ToFixed2(low), close |-> ToFixed2(close)]

CandleOf(n) == [time |-> n.time, open |-> n.open, high |-> n.high, low |-> n.low, close |-> n.close]

StalenessWindow == 3600

\* a staleness test that also drops the candle exactly one window old
IncomingDropped_Inclusive(n, mounted, lastTime) ==
  \/ n.t = "null"
  \/ ~mounted
  \/ n.time <= lastTime - StalenessWindow

\* the early returns of handleIncomingCandle (lines 573-574)
IncomingDropped(n, mounted, lastTime) ==
  \/ n.t = "null"
  \/ ~mounted
  \/ n.time < lastTime - StalenessWindow

\* handleIncomingCandle(candle) on the coalescer c (lines 572-579)
handleIncomingCandle(c, n, mounted, lastTime) ==
  IF IncomingDropped(n, mounted, lastTime) THEN c ELSE Enqueued(c, CandleOf(n))

NoSeries == [has |-> FALSE, id |-> 0, last |-> 0]

\* series.update(item) throws on a bar older than the last one when the library
\* build checks it
UpdateThrows(series, item, l) == l.rejectsOld /\ item.time < series.last

\* a forEach without the try/catch: the first throw ends the loop
RECURSIVE ApplyItems_StopsAtThrow(_, _, _)
ApplyItems_StopsAtThrow(d, items, l) ==
  IF items = <<>> \/ UpdateThrows(d.series, Head(items), l) THEN d
  ELSE ApplyItems_StopsAtThrow(
         [series |-> [d.series EXCEPT !.last = MathMax(@, Head(items).time)],
          data |-> Append(d.data, Head(items)),
          lastTime |-> MathMax(d.lastTime, Head(items).time)],
         Tail(items), l)

\* items.forEach of the flush handler (lines 59-67) on d = [series, data, lastTime]
RECURSIVE ApplyItems(_, _, _)
ApplyItems(d, items, l) ==
  IF items = <<>> THEN d
  ELSE LET item == Head(items)
           next ==
             IF UpdateThrows(d.series, item, l) THEN d
             ELSE [series |-> [d.series EXCEPT !.last = MathMax(@, item.time)],
                   data |-> Append(d.data, item),
                   lastTime |-> MathMax(d.lastTime, item.time)]
       IN  ApplyItems(next, Tail(items), l)

-----------------------------------------------------------------------------
(* EnhancedTradingChart: indicators (lines 250-366, 456-465)               *)

MaxIndicators == 1

IndIds == 1..MaxIndicators

NoIndicator == [on |-> FALSE, visible |-> FALSE, ver |-> 0]

NotComputed == [done |-> FALSE, src |-> <<>>, ver |-> 0]

\* the render whose updateIndicators the coalescer effect (deps [debug]) captured:
\* the first one, with chartReady = false and activeIndicators = []
FirstRender == [chartReady |-> FALSE, activeIndicators |-> [i \in IndIds |-> NoIndicator]]

\* updateIndicators() of the render r (lines 250-366): the new indCalc
updateIndicators(r, data, hasChart, calc) ==
  IF data = <<>> \/ ~r.chartReady THEN calc
  ELSE [i \in IndIds |->
          IF ~r.activeIndicators[i].on THEN calc[i]
          ELSE IF ~r.activeIndicators[i].visible THEN NotComputed
          ELSE IF hasChart
               THEN [done |-> TRUE, src |-> data, ver |-> r.activeIndicators[i].ver]
               ELSE calc[i]]

\* the indicator effect (lines 457-465) after a render: whether its timeout is armed
IndicatorEffect(st, ready, data) == st = "ready" /\ ready /\ data # <<>>

-----------------------------------------------------------------------------
(* Inputs: raw rows as the history endpoint and the push feed may send them *)

\* 2023-11-14T22:13:20Z in epoch seconds
T0 == 1700000 * 1000

MaxRows == 3

Prices(r, o, h, l, c) ==
  [r EXCEPT !.open = Num(o), !.high = Num(h), !.low = Num(l), !.close = Num(c)]

\* T0 as seconds, well-formed prices
RowSec == Prices([BlankRow EXCEPT !.time = Big(1700000, 0)], 100004, 101006, 99001, 100502)
\* T0 as milliseconds under the alias timestamp, prices under o/h/l/c
RowMs ==
  [BlankRow EXCEPT !.timestamp = Big(1700000000, 250),
                   !.o = Num(100200), !.h = Num(100900), !.l = Num(100100), !.c = Num(100300)]
\* T0 as "14-11-2023 22:13:20" under the alias datetime, prices under O/H/L/C
RowDmy ==
  [BlankRow EXCEPT !.datetime = Dmy(14, 11, 2023, 22, 13, 20),
                   !.O = Num(200000), !.H = Num(200000), !.L = Num(200000), !.C = Num(200000)]
\* one bar later; time is null, so the alias t is read
RowNext ==
  Prices([BlankRow EXCEPT !.time = JNull, !.t = Big(1700000, 900)], 100500, 102000, 100500, 101999)
\* high below open
RowBadHigh == Prices([BlankRow EXCEPT !.time = Big(1700000, 900)], 100500, 100400, 100000, 100200)
\* every price zero
RowZero == Prices([BlankRow EXCEPT !.time = Big(1699999, 100)], 0, 0, 0, 0)
\* negative prices that keep high >= max(open, close) and low <= min(open, close)
RowNeg == Prices([BlankRow EXCEPT !.time = Big(1700001, 800)], 0 - 5000, 0 - 1000, 0 - 9000, 0 - 3000)
\* open missing
RowNoOpen == [Prices([BlankRow EXCEPT !.time = Big(1700000, 0)], 1, 101000, 99000, 100000)
                EXCEPT !.open = JUndef]
\* close is not a number
RowStrClose == [Prices([BlankRow EXCEPT !.time = Big(1700000, 0)], 100000, 101000, 99000, 1)
                  EXCEPT !.close = JStr]
\* a number that is neither seconds nor milliseconds
RowSmallTime == Prices([BlankRow EXCEPT !.time = Big(0, 5)], 100000, 101000, 99000, 100000)
\* a date before the epoch
RowOld == Prices([BlankRow EXCEPT !.time = Dmy(1, 1, 1960, 0, 0, 0)], 100000, 101000, 99000, 100000)
\* month 13
RowBadDate == Prices([BlankRow EXCEPT !.time = Dmy(1, 13, 2023, 0, 0, 0)], 100000, 101000, 99000, 100000)
\* prices below half a cent
RowTiny == Prices([BlankRow EXCEPT !.time = Big(1700002, 700)], 4, 4, 4, 4)

RawRows ==
  {RowSec, RowMs, RowDmy, RowNext, RowBadHigh, RowZero, RowNeg, RowNoOpen,
   RowStrClose, RowSmallTime, RowOld, RowBadDate, RowTiny, NullRow}

\* payload.data objects of the push feed; the history below ends at T0 + 900
LiveSame == Prices([BlankRow EXCEPT !.time = Big(1700000, 900)], 100500, 102500, 100400, 102200)
LiveNew == Prices([BlankRow EXCEPT !.timestamp = Big(1700001800, 0)], 102200, 102300, 102000, 102100)
\* 3601 s and 3600 s before T0 + 900
LiveStale == Prices([BlankRow EXCEPT !.time = Big(1699997, 299)], 100000, 101000, 99000, 100000)
LiveEdge == Prices([BlankRow EXCEPT !.time = Big(1699997, 300)], 100000, 101000, 99000, 100000)
\* high below open, low missing
LiveBad == [Prices([BlankRow EXCEPT !.time = Big(1700001, 800)], 102200, 90000, 1, 102100)
              EXCEPT !.low = JUndef]
LiveNoTime == Prices(BlankRow, 100000, 101000, 99000, 100000)

LiveMsgs == {LiveSame, LiveNew, LiveStale, LiveEdge, LiveBad, LiveNoTime, NullRow}

\* what the history request comes back with
HistFail == [ok |-> FALSE, candles |-> <<>>]
HistTwo == [ok |-> TRUE, candles |-> <<RowMs, RowBadHigh, RowNext>>]
HistInvalid == [ok |-> TRUE, candles |-> <<RowBadHigh, RowNoOpen>>]

HistResponses == {HistFail, HistTwo, HistInvalid}

\* Date.now() / 1000 when generateMockData runs: the mock series ends at T0 + 900
NowSec == T0 + 900 + 86400

\* generateMockData(60) (EnhancedTradingChart.js 199)
MockDays == 60

RawLists == UNION {[1..n -> RawRows] : n \in 0..MaxRows}

-----------------------------------------------------------------------------
(* The state of each part before it is used                                *)

VIdle == vin = <<>> /\ vout = <<>> /\ vdone = FALSE

MaxBuffer == 3

CoItems == {[time |-> T0 + dt, tag |-> g] : dt \in {0 - 900, 0, 900}, g \in 1..2}

NotApplied == [called |-> FALSE, batch |-> <<>>, from |-> <<>>, fn |-> "none", again |-> <<>>]

CoIdle == co = NewCoalescer /\ coApplied = NotApplied /\ coOp = "none"

MaxSessions == 2

\* scheduleReconnect calls followed in SpecConn and in Spec
MaxAttempts == 7
DataAttempts == 2

\* live messages delivered in Spec
MaxMsgs == 2

\* parameter changes of one indicator
MaxParamVer == 2

Sessions == 1..MaxSessions

\* the component right after its first render and the first run of its effects
Mounted(token, l) ==
  /\ life = "mounted"
  /\ mountedRef = TRUE
  /\ sess = 1
  /\ tokenOf = [s \in Sessions |-> s = 1 /\ token]
  /\ initPc = [s \in Sessions |-> IF s = 1 THEN "wait100" ELSE "none"]
  /\ connTimer = [s \in Sessions |-> FALSE]
  /\ seriesRef = NoSeries
  /\ chartReady = FALSE
  /\ status = "creating chart"
  /\ chartDataRef = <<>>
  /\ lastTimeRef = 0
  /\ conn = NewConn
  /\ activeIndicators = [i \in IndIds |-> NoIndicator]
  /\ indCalc = [i \in IndIds |-> NotComputed]
  /\ indTimer = FALSE
  /\ nMsgs = 0
  /\ lib = l
  /\ lastEv = [op |-> "mount"]

LibBuilds == [rejectsOld : BOOLEAN, disposedThrows : BOOLEAN]

ChIdle == Mounted(FALSE, [rejectsOld |-> TRUE, disposedThrows |-> TRUE])

-----------------------------------------------------------------------------
(* SpecV: sanitizeAndValidate on every raw list up to MaxRows rows          *)

InitV == vin \in RawLists /\ vout = <<>> /\ vdone = FALSE /\ CoIdle /\ ChIdle

Validate ==
  /\ ~vdone
  /\ vout' = sanitizeAndValidate(vin)
  /\ vdone' = TRUE
  /\ UNCHANGED <<vin, coVars, chVars>>

NextV == Validate

SpecV == InitV /\ [][NextV]_vars

\* the candle invariants of the data model
CandleOk(c) ==
  /\ c.time \in Int /\ c.time > 0
  /\ \A p \in {c.open, c.high, c.low, c.close} : NumberIsFinite(p) /\ p.v > 0
  /\ c.high.v >= MathMax(c.open.v, c.close.v)
  /\ c.low.v <= MathMin(c.open.v, c.close.v)
  /\ c.high.v >= c.low.v

\* C6: every candle returned by sanitizeAndValidate has an integer time > 0, finite
\* prices that are all > 0, high >= max(open, close), low <= min(open, close) and
\* high >= low.
C6_OutputCandlesOk ==
  vdone => \A i \in DOMAIN vout : CandleOk(vout[i])

ValidIdx == {i \in DOMAIN vin : RowIsValid(vin[i])}

LastValidIdx(time) ==
  CHOOSE i \in ValidIdx :
    /\ RowCandle(vin[i]).time = time
    /\ \A j \in ValidIdx : RowCandle(vin[j]).time = time => j <= i

\* C7: sanitizeAndValidate(x) is strictly ascending by time, holds exactly one
\* candle per distinct time among the valid rows, that candle comes from the valid
\* row with that time that is latest in input order, and the output is no longer
\* than the input.
C7_SortedDedupedLastWins ==
  vdone =>
    /\ \A i \in 1..(Len(vout) - 1) : vout[i].time < vout[i + 1].time
    /\ {vout[i].time : i \in DOMAIN vout} = {RowCandle(vin[i]).time : i \in ValidIdx}
    /\ \A i \in DOMAIN vout : vout[i] = RowCandle(vin[LastValidIdx(vout[i].time)])
    /\ Len(vout) <= Len(vin)

\* two valid rows share a time and carry different prices, a third has another time
C7_Witness ==
  /\ vdone
  /\ Len(vout) = 2
  /\ \E i, j \in ValidIdx :
       /\ i < j
       /\ RowCandle(vin[i]).time = RowCandle(vin[j]).time
       /\ RowCandle(vin[i]) # RowCandle(vin[j])

-----------------------------------------------------------------------------
(* SpecCo: one coalescer with an applyFn that records its argument          *)

InitCo == VIdle /\ CoIdle /\ ChIdle

\* what an applyFn may do with its batch: return, throw, or enqueue an item again
\* before it returns
ApplyFns ==
  {[fn |-> "returns", again |-> <<>>], [fn |-> "throws", again |-> <<>>]}
  \cup {[fn |-> "enqueues", again |-> <<item>>] : item \in CoItems}

\* a flush that calls applyFn whatever the batch holds
ApplyRecorded_NoGuard(buffer, f) ==
  [called |-> TRUE, batch |-> FlushItems(buffer), from |-> buffer,
   fn |-> f.fn, again |-> f.again]

\* applyFn as called by flush (line 165): only with a non-empty batch
ApplyRecorded(buffer, f) ==
  IF FlushItems(buffer) # <<>>
  THEN [called |-> TRUE, batch |-> FlushItems(buffer), from |-> buffer,
        fn |-> f.fn, again |-> f.again]
  ELSE NotApplied

\* the coalescer c (already reset by flush, lines 163-164) once the applyFn called
\* as `applied` is over: a throw leaves flush at line 165 with nothing left to do
AfterApply(c, applied) ==
  IF applied.again # <<>> THEN Enqueued(c, applied.again[1]) ELSE c

CoEnqueue ==
  \E item \in CoItems :
    /\ Len(co.buffer) < MaxBuffer
    /\ co' = Enqueued(co, item)
    /\ coApplied' = NotApplied
    /\ coOp' = "enqueue"
    /\ UNCHANGED <<vVars, chVars>>

\* a pending timeout expires and runs flush
CoTimerFires ==
  \E h \in co.pending, f \in ApplyFns :
    /\ coApplied' = ApplyRecorded(co.buffer, f)
    /\ co' = AfterApply([Flushed(co) EXCEPT !.pending = co.pending \ {h}], coApplied')
    /\ coOp' = "timer"
    /\ UNCHANGED <<vVars, chVars>>

CoForceFlush ==
  \E f \in ApplyFns :
    /\ coApplied' = ApplyRecorded(co.buffer, f)
    /\ co' = AfterApply(Flushed(TimerCleared(co)), coApplied')
    /\ coOp' = "forceFlush"
    /\ UNCHANGED <<vVars, chVars>>

NextCo == CoEnqueue \/ CoTimerFires \/ CoForceFlush

SpecCo == InitCo /\ [][NextCo]_vars

\* C2: the batch passed to applyFn holds exactly one item per distinct time that
\* was enqueued since the previous flush, that item is the one enqueued last for
\* its time, and the batch is in strictly ascending time order.
C2_BatchDedupedLastWinsSorted ==
  coApplied.called =>
    LET b == coApplied.batch
        f == coApplied.from
    IN  /\ {b[i].time : i \in DOMAIN b} = {f[i].time : i \in DOMAIN f}
        /\ \A i \in 1..(Len(b) - 1) : b[i].time < b[i + 1].time
        /\ \A i \in DOMAIN b :
             \E k \in DOMAIN f :
               /\ f[k] = b[i]
               /\ \A j \in DOMAIN f : f[j].time = b[i].time => j <= k

\* a flush of a buffer in which one time was enqueued twice with different payloads
\* and a later time was enqueued before an earlier one
C2_Witness ==
  /\ coApplied.called
  /\ Len(coApplied.batch) = 2
  /\ LET f == coApplied.from IN
       /\ Len(f) = 3
       /\ f[1].time > f[2].time
       /\ f[3].time = f[1].time /\ f[3] # f[1]

\* C23: applyFn is never called with an empty batch: a forceFlush on an empty buffer
\* calls nothing, and every timer expiry finds a buffer with at least one item.
C23_NoEmptyBatch ==
  [][/\ coApplied'.called => coApplied'.batch # <<>>
     /\ (coOp' = "forceFlush" /\ co.buffer = <<>>) => ~coApplied'.called
     /\ coOp' = "timer" => (co.buffer # <<>> /\ coApplied'.called)]_vars

\* a forceFlush right after a flush: the buffer was empty and applyFn was not called
C23_Witness ==
  /\ coOp = "forceFlush"
  /\ ~coApplied.called
  /\ co.buffer = <<>> /\ co.pending = {}

\* C24: an enqueue into an empty buffer arms one new timeout; an enqueue into a
\* non-empty buffer leaves the armed timeout as it is; and the flush run by that
\* timeout, or by an earlier forceFlush, hands every buffered item to applyFn, itself
\* or a later item with its time.
C24_TimerArmedByFirstItem ==
  [][/\ coOp' = "enqueue" =>
          IF co.buffer = <<>>
          THEN /\ co'.timer # 0 /\ co'.timer \notin co.pending
               /\ co'.pending = co.pending \cup {co'.timer}
          ELSE co'.timer = co.timer /\ co'.pending = co.pending
     /\ (coOp' \in {"timer", "forceFlush"} /\ co.buffer # <<>>) =>
          /\ coApplied'.called
          /\ coApplied'.from = co.buffer
          /\ \A i \in DOMAIN co.buffer :
               \E k \in DOMAIN coApplied'.batch :
                 /\ coApplied'.batch[k].time = co.buffer[i].time
                 /\ \/ coApplied'.batch[k] = co.buffer[i]
                    \/ \E j \in DOMAIN co.buffer : j > i /\ co.buffer[j] = coApplied'.batch[k]
     /\ coOp' = "timer" => co.pending = {co.timer}]_vars

\* the timeout armed by the first of three items has fired and delivered a batch in
\* which the third item superseded the first
C24_Witness ==
  /\ coOp = "timer"
  /\ coApplied.called
  /\ Len(coApplied.from) = 3
  /\ Len(coApplied.batch) = 2
  /\ coApplied.from[3].time = coApplied.from[1].time
  /\ coApplied.from[3] # coApplied.from[1]

\* the timeout and the buffer between operations: a timeout is pending exactly when
\* the buffer is non-empty, at most one is pending, and the timer variable holds it
TimerMatchesBuffer ==
  /\ co.pending # {} <=> co.buffer # <<>>
  /\ Cardinality(co.pending) <= 1
  /\ co.pending = IF co.timer # 0 THEN {co.timer} ELSE {}

\* C29 as stated: between operations a timeout is pending exactly when the buffer is
\* non-empty and at most one is pending, also when applyFn throws or enqueues again;
\* after forceFlush the buffer is empty and no timeout is pending.
C29_TimerIffBuffered ==
  /\ TimerMatchesBuffer
  /\ coOp = "forceFlush" => (co.buffer = <<>> /\ co.pending = {})

\* C29 amended: the same, but after a flush (forced or by the timeout) the buffer
\* holds exactly what applyFn itself enqueued during that flush: nothing of the
\* delivered batch, and nothing at all when applyFn enqueued nothing.
C29_TimerIffBufferedAfterApply ==
  /\ TimerMatchesBuffer
  /\ coOp \in {"forceFlush", "timer"} => co.buffer = coApplied.again

\* a forceFlush of two items whose applyFn enqueued a third: the buffer holds that
\* item alone and one timeout is pending for it
C29_Witness ==
  /\ coOp = "forceFlush"
  /\ coApplied.called /\ coApplied.fn = "enqueues"
  /\ Len(coApplied.from) = 2
  /\ co.buffer = coApplied.again
  /\ co.pending = {co.timer} /\ co.timer # 0

-----------------------------------------------------------------------------
(* Spec: the EnhancedTradingChart component                                 *)

\* the indicator effect re-runs when one of its dependencies changed in the render
Rendered ==
  indTimer' =
    IF <<status', chartReady', activeIndicators'>> # <<status, chartReady, activeIndicators>>
    THEN IndicatorEffect(status', chartReady', chartDataRef')
    ELSE indTimer

Last(q) == q[Len(q)]

\* initChart from "Store chart data" on (lines 203-219), mounted, for session s whose
\* local series is `series` if it is still the chart's
Seeded(s, chartData) ==
  LET mine == seriesRef'.has /\ seriesRef'.id = s
      threw == ~mine /\ lib.disposedThrows
  IN  /\ chartDataRef' = chartData
      /\ lastTimeRef' = IF threw THEN lastTimeRef
                        ELSE IF chartData # <<>> THEN Last(chartData).time ELSE 0
      /\ status' = IF threw THEN "error" ELSE "ready"
      /\ connTimer' = [connTimer EXCEPT ![s] = ~threw /\ tokenOf[s]]
      /\ initPc' = [initPc EXCEPT ![s] = "done"]

SetData(series, s, chartData) ==
  IF series.has /\ series.id = s
  THEN [series EXCEPT !.last = IF chartData # <<>> THEN Last(chartData).time ELSE 0]
  ELSE series

MockSeries(d) == generateMockData(MockDays, NowSec, [i \in 1..MockDays |-> d])

\* the 100 ms wait of initChart is over (lines 109-196)
InitWait(s, draws) ==
  /\ UNCHANGED <<vVars, coVars, life, mountedRef, sess, tokenOf, conn, activeIndicators,
                 indCalc, nMsgs, lib>>
  /\ life # "rerun"
  /\ initPc[s] = "wait100"
  /\ lastEv' = [op |-> "initWait", seeded |-> life # "unmounted" /\ ~tokenOf[s]]
  /\ IF life = "unmounted"
     THEN \* containerRef.current is null: the throw is caught (220)
          /\ initPc' = [initPc EXCEPT ![s] = "done"]
          /\ UNCHANGED <<seriesRef, chartReady, status, chartDataRef, lastTimeRef,
                         connTimer, indTimer>>
     ELSE /\ chartReady' = TRUE
          /\ IF tokenOf[s]
             THEN /\ seriesRef' = [has |-> TRUE, id |-> s, last |-> 0]
                  /\ status' = "loading history"
                  /\ initPc' = [initPc EXCEPT ![s] = "fetch"]
                  /\ UNCHANGED <<chartDataRef, lastTimeRef, connTimer>>
             ELSE \E d \in draws :
                    /\ seriesRef' = SetData([has |-> TRUE, id |-> s, last |-> 0], s, MockSeries(d))
                    /\ Seeded(s, MockSeries(d))
          /\ Rendered

\* a loader without the fallback
HistoryData_NoFallback(resp, d) ==
  IF resp.ok /\ resp.candles # <<>> THEN sanitizeAndValidate(resp.candles) ELSE <<>>

\* chartData of lines 181-201
HistoryData(resp, d) ==
  LET v == IF resp.ok /\ resp.candles # <<>> THEN sanitizeAndValidate(resp.candles) ELSE <<>>
  IN  IF v = <<>> THEN MockSeries(d) ELSE v

\* the history request of session s settles (lines 184-219)
FetchDone(s, resps, draws) ==
  /\ UNCHANGED <<vVars, coVars, life, mountedRef, sess, tokenOf, chartReady, conn,
                 activeIndicators, indCalc, nMsgs, lib>>
  /\ life # "rerun"
  /\ initPc[s] = "fetch"
  /\ \E resp \in resps, d \in draws :
       /\ lastEv' = [op |-> "fetchDone", seeded |-> mountedRef, resp |-> resp]
       /\ IF ~mountedRef
          THEN /\ initPc' = [initPc EXCEPT ![s] = "done"]
               /\ UNCHANGED <<seriesRef, status, chartDataRef, lastTimeRef, connTimer, indTimer>>
          ELSE /\ seriesRef' = SetData(seriesRef, s, HistoryData(resp, d))
               /\ Seeded(s, HistoryData(resp, d))
               /\ Rendered

\* a connect attempt can be made within the bounds of the model
CanConnect(throws, maxAttempts) ==
  IF throws THEN conn.attempts < maxAttempts ELSE FreeSlots(conn) # {}

\* setTimeout(() => connectWebSocket(), 500) of session s fires (line 218)
InitialConnect(s, maxAttempts) ==
  /\ life # "rerun"
  /\ connTimer[s]
  /\ \E throws \in BOOLEAN :
       /\ CanConnect(throws, maxAttempts)
       /\ conn' = connectWebSocket(conn, mountedRef, tokenOf[s], s, throws)
       /\ lastEv' = [op |-> "initialConnect", sess |-> s]
  /\ connTimer' = [connTimer EXCEPT ![s] = FALSE]
  /\ UNCHANGED <<vVars, coVars, life, mountedRef, sess, tokenOf, initPc, seriesRef,
                 chartReady, status, chartDataRef, lastTimeRef, activeIndicators, indCalc,
                 indTimer, nMsgs, lib>>

\* ws.onopen (lines 481-487)
WsOpen(id) ==
  /\ UNCHANGED <<vVars, coVars, life, mountedRef, sess, tokenOf, initPc, connTimer,
                 seriesRef, chartReady, chartDataRef, lastTimeRef, activeIndicators,
                 indCalc, nMsgs, lib>>
  /\ life # "rerun"
  /\ conn.sockets[id].st = "connecting"
  /\ LET c == [conn EXCEPT !.sockets[id].st = "open", !.opened = TRUE] IN
       IF mountedRef
       THEN conn' = OnOpenReset(c) /\ status' = "connected"
       ELSE conn' = c /\ status' = status
  /\ Rendered
  /\ lastEv' = [op |-> "open", sess |-> conn.sockets[id].sess]

\* the socket is gone: ws.onclose (lines 507-512), after a failure, a close by the
\* peer or the close() of disconnectWebSocket
WsClose(id, maxAttempts) ==
  /\ UNCHANGED <<vVars, coVars, life, mountedRef, sess, tokenOf, initPc, connTimer,
                 seriesRef, chartReady, chartDataRef, lastTimeRef, activeIndicators,
                 indCalc, nMsgs, lib>>
  /\ life # "rerun"
  /\ conn.sockets[id].st \in {"connecting", "open", "closing"}
  /\ mountedRef => conn.attempts < maxAttempts
  /\ LET s == conn.sockets[id].sess
         c == [conn EXCEPT !.sockets[id] =
                 IF conn.wsRef = id THEN [st |-> "closed", sess |-> s] ELSE NoSocket,
                           !.opened = FALSE]
     IN  /\ conn' = scheduleReconnect(c, mountedRef, s)
         /\ status' = IF mountedRef THEN "disconnected" ELSE status
         /\ lastEv' = [op |-> "close", sess |-> s]
  /\ Rendered

\* ws.onmessage with payload.data = p (lines 489-501)
WsMessage(id) ==
  /\ life # "rerun"
  /\ conn.sockets[id].st = "open"
  /\ nMsgs < MaxMsgs
  /\ nMsgs' = nMsgs + 1
  /\ \E p \in LiveMsgs :
       LET n == normalizeIncoming(p) IN
         /\ co' = IF mountedRef THEN handleIncomingCandle(co, n, mountedRef, lastTimeRef)
                  ELSE co
         /\ lastEv' = [op |-> "message", sess |-> conn.sockets[id].sess, n |-> n,
                      handled |-> mountedRef]
  /\ UNCHANGED <<vVars, coApplied, coOp, life, mountedRef, sess, tokenOf, initPc,
                 connTimer, seriesRef, chartReady, status, chartDataRef, lastTimeRef, conn,
                 activeIndicators, indCalc, indTimer, lib>>

\* a reconnect timeout fires (lines 542-547)
ReconnectTimerFires(maxAttempts) ==
  /\ life # "rerun"
  /\ \E x \in conn.rtimers, throws \in BOOLEAN :
       LET c == [conn EXCEPT !.rtimers = conn.rtimers \ {x}]
           d == IF mountedRef
                THEN connectWebSocket(c, mountedRef, tokenOf[x.sess], x.sess, throws)
                ELSE c
       IN  /\ mountedRef => CanConnect(throws, maxAttempts)
           /\ conn' = [d EXCEPT !.timer = 0]
           /\ lastEv' = [op |-> "reconnectTimer", sess |-> x.sess]
  /\ UNCHANGED <<vVars, coVars, life, mountedRef, sess, tokenOf, initPc, connTimer,
                 seriesRef, chartReady, status, chartDataRef, lastTimeRef, activeIndicators,
                 indCalc, indTimer, nMsgs, lib>>

\* the coalescer's timeout fires: flush, then the flush handler (lines 57-71)
CoalescerTimerFires ==
  /\ life # "rerun"
  /\ \E h \in co.pending :
       LET items == FlushItems(co.buffer)
           runs == items # <<>> /\ seriesRef.has /\ mountedRef
           d == ApplyItems([series |-> seriesRef, data |-> chartDataRef,
                            lastTime |-> lastTimeRef], items, lib)
       IN  /\ co' = [Flushed(co) EXCEPT !.pending = co.pending \ {h}]
           /\ seriesRef' = IF runs THEN d.series ELSE seriesRef
           /\ chartDataRef' = IF runs THEN d.data ELSE chartDataRef
           /\ lastTimeRef' = IF runs THEN d.lastTime ELSE lastTimeRef
           /\ indCalc' = IF runs
                         THEN updateIndicators(FirstRender, d.data, seriesRef.has, indCalc)
                         ELSE indCalc
           \* seen: chartDataRef.current as updateIndicators() reads it (line 70)
           /\ lastEv' = [op |-> "flush", items |-> items, ran |-> runs,
                         seen |-> IF runs THEN d.data ELSE <<>>]
  /\ UNCHANGED <<vVars, coApplied, coOp, life, mountedRef, sess, tokenOf, initPc,
                 connTimer, chartReady, status, conn, activeIndicators, indTimer, nMsgs, lib>>

\* handleAddIndicator (lines 582-584)
AddIndicator(i) ==
  /\ UNCHANGED <<vVars, coVars, life, mountedRef, sess, tokenOf, initPc, connTimer,
                 seriesRef, chartReady, status, chartDataRef, lastTimeRef, conn, indCalc,
                 nMsgs, lib>>
  /\ life = "mounted"
  /\ ~activeIndicators[i].on
  /\ activeIndicators' = [activeIndicators EXCEPT ![i] = [on |-> TRUE, visible |-> TRUE, ver |-> 1]]
  /\ Rendered
  /\ lastEv' = [op |-> "indicator"]

\* handleRemoveIndicator (lines 586-603)
RemoveIndicator(i) ==
  /\ UNCHANGED <<vVars, coVars, life, mountedRef, sess, tokenOf, initPc, connTimer,
                 seriesRef, chartReady, status, chartDataRef, lastTimeRef, conn, nMsgs, lib>>
  /\ life = "mounted"
  /\ activeIndicators[i].on
  /\ activeIndicators' = [activeIndicators EXCEPT ![i] = NoIndicator]
  /\ indCalc' = [indCalc EXCEPT ![i] = NotComputed]
  /\ Rendered
  /\ lastEv' = [op |-> "indicator"]

\* handleUpdateIndicator (lines 605-626) with new params or with a visibility toggle
UpdateIndicator(i) ==
  /\ UNCHANGED <<vVars, coVars, life, mountedRef, sess, tokenOf, initPc, connTimer,
                 seriesRef, chartReady, status, chartDataRef, lastTimeRef, conn, nMsgs, lib>>
  /\ life = "mounted"
  /\ activeIndicators[i].on
  /\ \/ /\ activeIndicators[i].ver < MaxParamVer
        /\ activeIndicators' = [activeIndicators EXCEPT ![i].ver = @ + 1]
        /\ indCalc' = [indCalc EXCEPT ![i] = NotComputed]
        /\ lastEv' = [op |-> "updateIndicator"]
     \/ /\ activeIndicators' = [activeIndicators EXCEPT ![i].visible = ~@]
        /\ indCalc' = indCalc
        /\ lastEv' = [op |-> "updateIndicator"]
  /\ Rendered

\* the 50 ms timeout of the indicator effect fires (lines 460-462)
IndTimerFires ==
  /\ life = "mounted"
  /\ indTimer
  /\ indTimer' = FALSE
  /\ indCalc' = updateIndicators([chartReady |-> chartReady,
                                  activeIndicators |-> activeIndicators],
                                 chartDataRef, seriesRef.has, indCalc)
  /\ lastEv' = [op |-> "indTimer"]
  /\ UNCHANGED <<vVars, coVars, life, mountedRef, sess, tokenOf, initPc, connTimer,
                 seriesRef, chartReady, status, chartDataRef, lastTimeRef, conn,
                 activeIndicators, nMsgs, lib>>

\* the cleanup of the initChart effect (lines 229-246): on unmount, or before the
\* effect re-runs because symbol or sessionToken changed
Teardown(kinds) ==
  /\ life = "mounted"
  /\ \E kind \in kinds :
       /\ kind = "rerun" => sess < MaxSessions
       /\ life' = kind
  /\ mountedRef' = FALSE
  /\ conn' = disconnectWebSocket(conn)
  /\ seriesRef' = NoSeries
  /\ chartReady' = FALSE
  /\ indTimer' = FALSE
  /\ lastEv' = [op |-> "teardown", ws |-> conn.wsRef]
  /\ UNCHANGED <<vVars, coVars, sess, tokenOf, initPc, connTimer, status, chartDataRef,
                 lastTimeRef, activeIndicators, indCalc, nMsgs, lib>>

\* the initChart effect runs again (lines 99-102, 227)
EffectRun ==
  /\ UNCHANGED <<vVars, coVars, connTimer, seriesRef, chartReady, chartDataRef, lastTimeRef,
                 conn, activeIndicators, indCalc, nMsgs, lib>>
  /\ life = "rerun"
  /\ life' = "mounted"
  /\ mountedRef' = TRUE
  /\ sess' = sess + 1
  /\ \E token \in BOOLEAN : tokenOf' = [tokenOf EXCEPT ![sess + 1] = token]
  /\ initPc' = [initPc EXCEPT ![sess + 1] = "wait100"]
  /\ status' = "creating chart"
  /\ Rendered
  /\ lastEv' = [op |-> "effectRun"]

-----------------------------------------------------------------------------
(* Spec: the component with its live data path.  One session; the effect    *)
(* re-run is followed in SpecConn.                                          *)

\* Math.random() results, in thousandths, used for every day of the mock series
DataDraws == {<<999, 0, 999, 999>>}

Init ==
  /\ VIdle
  /\ co = NewCoalescer /\ coApplied = NotApplied /\ coOp = "none"
  /\ \E token \in BOOLEAN, l \in LibBuilds : Mounted(token, l)

Next ==
  \/ InitWait(1, DataDraws)
  \/ FetchDone(1, HistResponses, DataDraws)
  \/ InitialConnect(1, DataAttempts)
  \/ \E id \in 1..MaxSockets : WsOpen(id) \/ WsClose(id, DataAttempts) \/ WsMessage(id)
  \/ ReconnectTimerFires(DataAttempts)
  \/ CoalescerTimerFires
  \/ \E i \in IndIds : AddIndicator(i) \/ RemoveIndicator(i) \/ UpdateIndicator(i)
  \/ IndTimerFires
  \/ Teardown({"unmounted"})

Spec == Init /\ [][Next]_vars

\* C3: in every reachable state the candle series that feeds the indicators
\* (chartDataRef) has strictly increasing time keys.
C3_SeriesStrictlyIncreasing ==
  \A i \in 1..(Len(chartDataRef) - 1) : chartDataRef[i].time < chartDataRef[i + 1].time

\* C4: when the first candle of a flushed batch has the time of the last stored
\* candle, the store replaces that last candle with it: the candles before it stay,
\* the last element becomes the new candle, and only the rest of the batch adds length.
C4_EqualTimeReplacesLast ==
  [][(/\ lastEv'.op = "flush" /\ lastEv'.ran
      /\ chartDataRef # <<>>
      /\ lastEv'.items[1].time = Last(chartDataRef).time)
     => /\ Len(chartDataRef') = Len(chartDataRef) + Len(lastEv'.items) - 1
        /\ SubSeq(chartDataRef', 1, Len(chartDataRef)) =
             [chartDataRef EXCEPT ![Len(chartDataRef)] = lastEv'.items[1]]]_vars

\* C5: an incoming live candle whose time is less than lastTimeRef - 3600 is dropped
\* by handleIncomingCandle, leaving the coalescer buffer and timer, the stored series
\* and lastTimeRef unchanged; any other candle, the one exactly 3600 s old included,
\* is enqueued.
C5_StaleDroppedEdgeKept ==
  [][(lastEv'.op = "message" /\ lastEv'.handled /\ lastEv'.n.t = "candle")
     => IF lastEv'.n.time < lastTimeRef - 3600
        THEN UNCHANGED <<co, chartDataRef, seriesRef, lastTimeRef>>
        ELSE /\ co'.buffer = Append(co.buffer, CandleOf(lastEv'.n))
             /\ co'.timer # 0
             /\ UNCHANGED <<chartDataRef, seriesRef, lastTimeRef>>]_vars

\* a stale candle has just been dropped while an earlier candle waits in the buffer
\* with the flush timer armed
C5_Witness ==
  /\ lastEv.op = "message" /\ lastEv.handled /\ lastEv.n.t = "candle"
  /\ lastEv.n.time < lastTimeRef - 3600
  /\ co.buffer # <<>> /\ co.pending # {}
  /\ chartDataRef # <<>>

\* the price invariants of a stored candle
CandlePricesOk(c) ==
  /\ \A p \in {c.open, c.high, c.low, c.close} : NumberIsFinite(p) /\ p.v > 0
  /\ c.high.v >= MathMax(c.open.v, c.close.v)
  /\ c.low.v <= MathMin(c.open.v, c.close.v)

\* C8: in every reachable state every candle of the stored series has finite
\* positive prices, high >= max(open, close) and low <= min(open, close), whichever
\* path it came in by.
C8_StoredCandlesValid ==
  \A i \in DOMAIN chartDataRef : CandlePricesOk(chartDataRef[i])

ShownIndicators == {i \in IndIds : activeIndicators[i].on /\ activeIndicators[i].visible}

\* C9: a flush that adds or changes a stored candle leaves every active, visible
\* indicator computed from the full new series; and a change of an indicator's
\* parameters or visibility that leaves it active and visible over a loaded series
\* arms its recomputation, whatever the connection status.
C9_IndicatorsRecomputed ==
  [][/\ (lastEv'.op = "flush" /\ chartDataRef' # chartDataRef)
        => \A i \in ShownIndicators :
             /\ indCalc'[i].done
             /\ indCalc'[i].src = chartDataRef'
             /\ indCalc'[i].ver = activeIndicators[i].ver
     /\ (lastEv'.op = "updateIndicator" /\ chartDataRef # <<>> /\ seriesRef.has)
        => \A i \in IndIds :
             (activeIndicators'[i].on /\ activeIndicators'[i].visible) => indTimer']_vars

\* C11: when the teardown returns, no coalescer flush timeout armed before it is
\* still pending, so no flush of items enqueued before the teardown fires afterwards.
C11_TeardownCancelsFlushTimer ==
  lastEv.op = "teardown" => co.pending = {}

\* C17: whenever initChart seeds the series (assigns chartDataRef and calls
\* series.setData), the seeded series has at least one candle, whatever the history
\* request came back with, and also without a session token.
C17_NeverSeededEmpty ==
  (lastEv.op \in {"initWait", "fetchDone"} /\ lastEv.seeded) => Len(chartDataRef) >= 1

\* the history request returned only invalid rows and the series has just been seeded
C17_Witness ==
  /\ lastEv.op = "fetchDone" /\ lastEv.seeded
  /\ lastEv.resp = HistInvalid
  /\ Len(chartDataRef) = MockDays

\* C18: whenever the validated history has fewer than 10 candles, initChart seeds
\* the series with the synthetic series instead of the validated rows.
C18_FewRowsFallBack ==
  (/\ lastEv.op = "fetchDone" /\ lastEv.seeded
   /\ Len(sanitizeAndValidate(lastEv.resp.candles)) < 10)
  => chartDataRef \in {MockSeries(d) : d \in DataDraws}

\* C28 as stated: when the flush handler calls updateIndicators, every item of the
\* batch has been appended to the stored series and counted in lastTimeRef, and the
\* series updateIndicators reads is the one the handler leaves behind.
C28_WholeBatchApplied ==
  [][(lastEv'.op = "flush" /\ lastEv'.ran)
     => /\ lastEv'.seen = chartDataRef'
        /\ chartDataRef' = chartDataRef \o lastEv'.items
        /\ \A i \in DOMAIN lastEv'.items : lastTimeRef' >= lastEv'.items[i].time]_vars

\* C28 amended: when the flush handler calls updateIndicators, every item of the
\* batch that series.update accepted has been appended to the stored series and
\* counted in lastTimeRef, the items it rejected have been skipped, and the series
\* updateIndicators reads is the one the handler leaves behind.
C28_AcceptedItemsApplied ==
  [][(lastEv'.op = "flush" /\ lastEv'.ran)
     => LET Accepted(item) == ~(lib.rejectsOld /\ item.time < seriesRef.last)
            accepted == SelectSeq(lastEv'.items, Accepted)
        IN  /\ lastEv'.seen = chartDataRef'
            /\ chartDataRef' = chartDataRef \o accepted
            /\ \A i \in DOMAIN accepted : lastTimeRef' >= accepted[i].time
            /\ lastTimeRef' >= lastTimeRef]_vars

\* a flush of two items: series.update rejected the first, the second is the last
\* stored candle, and updateIndicators read the series with it
C28_Witness ==
  /\ lastEv.op = "flush" /\ lastEv.ran
  /\ Len(lastEv.items) = 2
  /\ \A i \in DOMAIN chartDataRef : chartDataRef[i] # lastEv.items[1]
  /\ Last(chartDataRef) = lastEv.items[2]
  /\ lastEv.seen = chartDataRef
  /\ lastTimeRef = lastEv.items[2].time

\* C30: at most one reconnect timeout is pending, and whenever one is pending
\* reconnectRef.timer holds its handle, also after a timeout callback whose connect
\* attempt threw and scheduled the next reconnect itself.
C30_TimerHandleKept ==
  /\ Cardinality(conn.rtimers) <= 1
  /\ \A x \in conn.rtimers : x.h = conn.timer

-----------------------------------------------------------------------------
(* SpecConn: sessions, sockets and the reconnect controller.  The handlers   *)
(* left out (messages, flushes, indicators) read and write none of mountedRef, *)
(* life, the sessions, wsRef, the sockets and reconnectRef.                 *)

InitConn ==
  /\ VIdle
  /\ co = NewCoalescer /\ coApplied = NotApplied /\ coOp = "none"
  /\ \E token \in BOOLEAN, l \in LibBuilds : l.rejectsOld /\ Mounted(token, l)

NextConn ==
  \/ \E s \in Sessions :
       \/ InitWait(s, DataDraws)
       \/ FetchDone(s, {HistFail}, DataDraws)
       \/ InitialConnect(s, MaxAttempts)
  \/ \E id \in 1..MaxSockets : WsOpen(id) \/ WsClose(id, MaxAttempts)
  \/ ReconnectTimerFires(MaxAttempts)
  \/ Teardown({"unmounted", "rerun"})
  \/ EffectRun

SpecConn == InitConn /\ [][NextConn]_vars

\* 1000, 2000, 4000, 8000, 16000, 30000, 30000, ...
BackoffSequence(k) ==
  IF k <= 5 THEN <<1000, 2000, 4000, 8000, 16000>>[k] ELSE 30000

\* C1: from a reset reconnect state, the delay armed by the k-th scheduleReconnect
\* with no open in between is 1000, 2000, 4000, 8000, 16000, 30000, 30000, ...;
\* no armed delay exceeds 30000 ms.
C1_BackoffSequence ==
  /\ conn.rk >= 1 => conn.lastDelay = BackoffSequence(conn.rk)
  /\ \A x \in conn.rtimers : x.delay <= 30000

\* the seventh failure in a row has armed the capped delay
C1_Witness ==
  /\ conn.rk = 7
  /\ \E x \in conn.rtimers : x.h = conn.timer /\ x.delay = 30000

\* C10: when the teardown returns no reconnect timer is pending and
\* reconnectRef.timer is null, close() has been called on the socket wsRef held and
\* wsRef is null, and mountedRef is false.
C10_TeardownLeavesNothing ==
  lastEv.op = "teardown" =>
    /\ conn.rtimers = {}
    /\ conn.timer = 0
    /\ conn.wsRef = 0
    /\ lastEv.ws # 0 => conn.sockets[lastEv.ws].st \in {"closing", "closed"}
    /\ ~mountedRef

\* session s has been torn down: a later run of the effect replaced it, or its
\* cleanup ran
TornDown(s) == s < sess \/ life # "mounted"

\* the ops of lastEv that are socket notifications or timers of one session
SessionCallbacks == {"open", "close", "message", "reconnectTimer", "initialConnect"}

\* C12: once a session has been torn down, no open/message/close notification of
\* its socket and no timer it armed changes the connection status, schedules a
\* reconnect, opens a socket or writes or buffers a candle, also when a new session
\* was started right after the teardown.
C12_LateCallbacksIgnored ==
  [][(lastEv'.op \in SessionCallbacks /\ TornDown(lastEv'.sess))
     => /\ status' = status
        /\ conn'.attempts = conn.attempts
        /\ conn'.rtimers \subseteq conn.rtimers
        /\ conn'.wsRef = conn.wsRef
        /\ \A id \in 1..MaxSockets :
             conn'.sockets[id].st = "connecting" => conn.sockets[id].st = "connecting"
        /\ UNCHANGED <<co, chartDataRef, lastTimeRef>>]_vars

\* C13: the close notification of a socket that disconnectWebSocket() closed
\* schedules no reconnect: reconnectRef.attempts and the pending reconnect timers
\* stay as they were.
C13_ExplicitCloseNoReconnect ==
  [][\A id \in 1..MaxSockets :
       (/\ lastEv'.op = "close"
        /\ conn.sockets[id].st = "closing"
        /\ conn'.sockets[id].st # "closing")
       => /\ conn'.attempts = conn.attempts
          /\ conn'.rtimers = conn.rtimers]_vars

\* C25: when a socket opens the reconnect state is reset (attempts = 0, backoff =
\* 1000), however many attempts failed before, and the first close after an open
\* arms a reconnect delay of exactly 1000 ms.
C25_OpenResetsBackoff ==
  [][/\ (lastEv'.op = "open" /\ mountedRef)
        => (conn'.attempts = 0 /\ conn'.backoff = 1000)
     /\ (lastEv'.op = "close" /\ conn.opened /\ mountedRef)
        => /\ conn'.lastDelay = 1000
           /\ \E x \in conn'.rtimers : x.h = conn'.timer /\ x.delay = 1000]_vars

-----------------------------------------------------------------------------
(* SpecRetry: one session and its reconnect controller.  A timeout that has  *)
(* expired is run by the event loop, so the reconnect timeout is weakly fair. *)

NextRetry ==
  \/ InitWait(1, DataDraws)
  \/ FetchDone(1, {HistFail}, DataDraws)
  \/ InitialConnect(1, MaxAttempts)
  \/ \E id \in 1..MaxSockets : WsOpen(id) \/ WsClose(id, MaxAttempts)
  \/ ReconnectTimerFires(MaxAttempts)
  \/ Teardown({"unmounted"})

SpecRetry ==
  InitConn /\ [][NextRetry]_vars /\ WF_vars(ReconnectTimerFires(MaxAttempts))

\* a socket of the component is connecting or open
SocketAlive(c) == \E id \in 1..MaxSockets : c.sockets[id].st \in {"connecting", "open"}

\* C27: while the component is mounted with a session token, a socket close and a
\* connect attempt that fails leave a reconnect timeout pending, whatever the number
\* of failures so far, and a pending reconnect timeout is eventually followed by the
\* next connect attempt unless the component is unmounted first.
C27_RetriesForever ==
  /\ [][(lastEv'.op = "close" /\ mountedRef) => conn'.rtimers # {}]_vars
  /\ [][(lastEv'.op \in {"initialConnect", "reconnectTimer"}
         /\ mountedRef /\ tokenOf[lastEv'.sess])
        => (SocketAlive(conn') \/ conn'.rtimers # {})]_vars
  /\ (conn.rtimers # {}) ~> (lastEv.op = "reconnectTimer" \/ ~mountedRef)

\* after five failures in a row the timeout has fired and the next socket is connecting
C27_Witness ==
  /\ mountedRef
  /\ lastEv.op = "reconnectTimer"
  /\ conn.rk >= 5
  /\ SocketAlive(conn)

-----------------------------------------------------------------------------
(* SpecAdv: AdvancedChart's sockets and reconnect controller               *)
(* (AdvancedChart.js 462-548).  wsRef, the sockets and reconnectRef are kept *)
(* in conn; none of its handlers looks at a mounted flag.                   *)

\* scheduleReconnect() (lines 536-548), called for session s
AdvScheduleReconnect(c, s) ==
  LET attempts == c.attempts + 1
      backoff == MathMin(30000, c.backoff * 2 ^ (attempts - 1))
      left == {x \in c.rtimers : x.h # c.timer}
      h == CHOOSE n \in 1..(Cardinality(left) + 1) : \A x \in left : x.h # n
  IN  [c EXCEPT !.attempts = attempts,
                !.timer = h,
                !.rtimers = left \cup {[h |-> h, delay |-> backoff, sess |-> s]},
                !.backoff = MathMin(30000, c.backoff * 2),
                !.rk = c.rk + 1,
                !.lastDelay = backoff]

\* connectWebSocket() (lines 462-521): from initChart (178), from the re-init effect
\* after its disconnectWebSocket() (255-256), and from a reconnect timeout, which
\* then sets info.timer = null (542-545)
AdvConnect ==
  /\ \E throws \in BOOLEAN :
       LET connected(c, s) ==
             IF ~tokenOf[1] THEN c
             ELSE IF throws THEN AdvScheduleReconnect(c, s)
             ELSE LET id == CHOOSE i \in FreeSlots(c) : TRUE IN
                    [c EXCEPT !.sockets[id] = [st |-> "connecting", sess |-> s], !.wsRef = id]
       IN  /\ IF throws THEN conn.attempts < MaxAttempts ELSE FreeSlots(conn) # {}
           /\ \/ /\ life = "mounted" /\ initPc[1] = "wait100"
                 /\ conn' = connected(conn, sess)
                 /\ initPc' = [initPc EXCEPT ![1] = "done"]
                 /\ sess' = sess
                 /\ lastEv' = [op |-> "advInit"]
              \/ /\ sess < MaxSessions
                 /\ conn' = connected(disconnectWebSocket(conn), sess + 1)
                 /\ sess' = sess + 1
                 /\ initPc' = initPc
                 /\ lastEv' = [op |-> "advReinit"]
              \/ \E x \in conn.rtimers :
                   /\ conn' = [connected([conn EXCEPT !.rtimers = conn.rtimers \ {x}], x.sess)
                                 EXCEPT !.timer = 0]
                   /\ sess' = sess
                   /\ initPc' = initPc
                   /\ lastEv' = [op |-> "advTimer"]
  /\ UNCHANGED <<vVars, coVars, life, mountedRef, tokenOf, connTimer, seriesRef, chartReady,
                 status, chartDataRef, lastTimeRef, activeIndicators, indCalc, indTimer,
                 nMsgs, lib>>

\* ws.onopen (lines 473-480)
AdvOpen(id) ==
  /\ conn.sockets[id].st = "connecting"
  /\ conn' = OnOpenReset([conn EXCEPT !.sockets[id].st = "open", !.opened = TRUE])
  /\ status' = "connected"
  /\ lastEv' = [op |-> "advOpen"]
  /\ UNCHANGED <<vVars, coVars, life, mountedRef, sess, tokenOf, initPc, connTimer, seriesRef,
                 chartReady, chartDataRef, lastTimeRef, activeIndicators, indCalc, indTimer,
                 nMsgs, lib>>

\* ws.onclose (lines 511-516)
AdvClose(id) ==
  /\ conn.sockets[id].st \in {"connecting", "open", "closing"}
  /\ conn.attempts < MaxAttempts
  /\ conn' = AdvScheduleReconnect(
               [conn EXCEPT !.sockets[id] =
                              IF conn.wsRef = id
                              THEN [st |-> "closed", sess |-> conn.sockets[id].sess]
                              ELSE NoSocket,
                            !.opened = FALSE],
               conn.sockets[id].sess)
  /\ status' = "disconnected"
  /\ lastEv' = [op |-> "advClose"]
  /\ UNCHANGED <<vVars, coVars, life, mountedRef, sess, tokenOf, initPc, connTimer, seriesRef,
                 chartReady, chartDataRef, lastTimeRef, activeIndicators, indCalc, indTimer,
                 nMsgs, lib>>

\* the cleanup of the mount effect (lines 188-191)
AdvUnmount ==
  /\ life = "mounted"
  /\ life' = "unmounted"
  /\ conn' = disconnectWebSocket(conn)
  /\ lastEv' = [op |-> "advUnmount"]
  /\ UNCHANGED <<vVars, coVars, mountedRef, sess, tokenOf, initPc, connTimer, seriesRef,
                 chartReady, status, chartDataRef, lastTimeRef, activeIndicators, indCalc,
                 indTimer, nMsgs, lib>>

NextAdv ==
  \/ AdvConnect
  \/ \E id \in 1..MaxSockets : AdvOpen(id) \/ AdvClose(id)
  \/ AdvUnmount

SpecAdv == InitConn /\ [][NextAdv]_vars

\* C26: in AdvancedChart every scheduleReconnect arms the current backoff and then
\* doubles it up to 30000, so that the k-th failure in a row with no open in between
\* waits 1000, 2000, 4000, 8000, 16000, 30000, 30000, ... ms.
C26_AdvBackoffSequence ==
  [][conn'.rk = conn.rk + 1
     => /\ conn'.lastDelay = conn.backoff
        /\ conn'.backoff = MathMin(30000, 2 * conn.backoff)
        /\ conn'.lastDelay = BackoffSequence(conn'.rk)]_vars

-----------------------------------------------------------------------------
(* SpecT: parseApiTimeToSeconds on raw times and on the encodings of an instant *)

\* calendar instants, 1960 to 2037, around the epoch and around 1e9 seconds
\* (2001-09-09T01:46:40Z); a date that does not exist is no instant
InstantDates ==
  {d \in {Dmy(dd, mm, yyyy, hh, mi, ss) :
            dd \in {1, 9, 29}, mm \in {1, 2, 9}, yyyy \in {1960, 1970, 2001, 2024, 2037},
            hh \in {0, 1}, mi \in {0, 46}, ss \in {0, 40, 41}} :
     DateParseIso(d).t = "num"}

\* an instant: its date and its milliseconds within the second
Instants == [t : {"instant"}, d : InstantDates, ms : {0, 250}]

SecondsOf(i) == DateParseIso(i.d).v

\* the instant as a number of seconds and as a number of milliseconds
SecondsNumber(i) == Big(SecondsOf(i) \div 1000, SecondsOf(i) % 1000)
MillisNumber(i) == Big(SecondsOf(i), i.ms)

\* raw times that are no encoding of a listed instant
RawTimes ==
  {JUndef, JNull, JNaN, JInf, JStr,
   Big(0, 0), Big(0, 5), Big(0 - 1700000, 0),
   Big(1000000, 0), Big(1000000, 1), Big(1700000, 0),
   Big(978307, 200), Big(978307200, 0),
   Big(1000000000, 0), Big(1000000000, 1), Big(1700000000, 250),
   Digits(1700000, 0, JNaN), Digits(1700000000, 250, JNaN),
   Digits(0, 5, JNaN), Digits(0, 5, Num(988675200)),
   Digits(2, 23, JNaN), Digits(2, 23, Num(1672531200)),
   Dmy(1, 13, 2023, 0, 0, 0), Dmy(31, 4, 2023, 0, 0, 0), Dmy(29, 2, 2023, 10, 0, 0),
   Dmy(14, 11, 2023, 24, 0, 0), Dmy(14, 11, 2023, 22, 13, 20),
   Dmy(1, 1, 1970, 0, 0, 0), Dmy(31, 12, 1969, 23, 59, 59), Dmy(1, 1, 1970, 0, 0, 1),
   Iso(Dmy(14, 11, 2023, 22, 13, 20)), Iso(Dmy(1, 1, 1960, 0, 0, 0)),
   Iso(Dmy(30, 2, 2024, 0, 0, 0))}

InitT == vin \in (RawTimes \cup Instants) /\ vout = <<>> /\ vdone = FALSE /\ CoIdle /\ ChIdle

\* parseApiTimeToSeconds(rawTime)
Normalize ==
  /\ ~vdone
  /\ vin.t # "instant"
  /\ vout' = parseApiTimeToSeconds(vin)
  /\ vdone' = TRUE
  /\ UNCHANGED <<vin, coVars, chVars>>

\* parseApiTimeToSeconds on the three encodings of one instant
NormalizeEncodings ==
  /\ ~vdone
  /\ vin.t = "instant"
  /\ vout' = [ms |-> parseApiTimeToSeconds(MillisNumber(vin)),
              s |-> parseApiTimeToSeconds(SecondsNumber(vin)),
              str |-> parseApiTimeToSeconds(vin.d)]
  /\ vdone' = TRUE
  /\ UNCHANGED <<vin, coVars, chVars>>

NextT == Normalize \/ NormalizeEncodings

SpecT == InitT /\ [][NextT]_vars

NumberOfDigits(x) == Big(x.q, x.r)

\* C15: for a string of decimal digits parseApiTimeToSeconds returns what it returns
\* for the number the string spells.
C15_DigitStringAsNumber ==
  (vdone /\ vin.t = "digits") => vout = parseApiTimeToSeconds(NumberOfDigits(vin))

\* C16: for every input parseApiTimeToSeconds returns null or a positive integer.
C16_NullOrPositive ==
  (vdone /\ vin.t # "instant")
  => \/ vout = JNull
     \/ vout.t = "num" /\ DOMAIN vout = {"t", "v"} /\ vout.v > 0
     \/ vout.t = "num" /\ DOMAIN vout = {"t", "q", "r"} /\ vout.q > 0

-----------------------------------------------------------------------------
(* SpecM: generateMockData, and sanitizeAndValidate on what it returns      *)

MaxMockLen == 3

\* the four Math.random() results of one day, in thousandths
DayDraws == {<<999, 0, 999, 999>>, <<0, 999, 0, 0>>, <<500, 500, 1, 1>>}

\* Math.floor(Date.now() / 1000): today's clock, and a clock two days past 1e9
\* seconds (2001-09-11)
Clocks == {NowSec, 1000000000 + 2 * 86400}

MockInputs ==
  UNION {[t : {"mock"}, days : {n}, nowSec : Clocks, draws : [1..n -> DayDraws]] :
           n \in 0..MaxMockLen}

\* a candle object read as a raw row: its time is a number of seconds
CandleAsRow(c) ==
  [BlankRow EXCEPT !.time = Big(c.time \div 1000, c.time % 1000),
                   !.open = c.open, !.high = c.high, !.low = c.low, !.close = c.close]

InitM == vin \in MockInputs /\ vout = <<>> /\ vdone = FALSE /\ CoIdle /\ ChIdle

\* s = generateMockData(days); v = sanitizeAndValidate(s)
MockRoundTrip ==
  /\ ~vdone
  /\ LET s == generateMockData(vin.days, vin.nowSec, vin.draws) IN
       vout' = [s |-> s, v |-> sanitizeAndValidate([i \in DOMAIN s |-> CandleAsRow(s[i])])]
  /\ vdone' = TRUE
  /\ UNCHANGED <<vin, coVars, chVars>>

NextM == MockRoundTrip

SpecM == InitM /\ [][NextM]_vars

\* C19 as stated: for every series s that generateMockData can return,
\* sanitizeAndValidate(s) equals s.
C19_MockRoundTrip ==
  vdone => vout.v = vout.s

\* C19 amended: for every series s that generateMockData returns whose first candle
\* is later than 1e9 seconds after the epoch, sanitizeAndValidate(s) equals s.
C19_MockRoundTripAbove1e9 ==
  (vdone /\ vin.nowSec - vin.days * 86400 > 1000000000) => vout.v = vout.s

\* three days with different random results under today's clock
C19_Witness ==
  /\ vdone
  /\ vin.days = 3 /\ vin.nowSec = NowSec
  /\ vin.draws[1] # vin.draws[2]
  /\ Len(vout.v) = 3

-----------------------------------------------------------------------------
(* SpecI: calculateSMA, calculateRSI and calculateOBV of utils/indicators.js *)
(* (10-27, 69-117, 500-522)                                                 *)

RECURSIVE SumClose(_)
\* slice.reduce((acc, candle) => acc + candle.close, 0), in mills
SumClose(slice) ==
  IF slice = <<>> THEN 0 ELSE Head(slice).close.v + SumClose(Tail(slice))

\* parseFloat((sum / period).toFixed(2)) for sum >= 0: the multiple of 10 mills
\* nearest to sum / period.  A mean that ends in exactly half a cent goes by its
\* binary expansion in JS; such inputs are kept out (HasTie).
MeanToFixed2(sum, period) == Num(((sum + 5 * period) \div (10 * period)) * 10)

\* a window that leaves out the current candle
calculateSMA_LaggingWindow(data, period) ==
  IF Len(data) < period THEN <<>>
  ELSE [k \in 1..(Len(data) - period + 1) |->
          [time |-> data[k + period - 1].time,
           value |-> MeanToFixed2(SumClose(SubSeq(data, k, k + period - 2)), period)]]

\* calculateSMA(data, period); the k-th point is the loop's i = period - 1 + (k - 1)
calculateSMA(data, period) ==
  IF Len(data) < period THEN <<>>
  ELSE [k \in 1..(Len(data) - period + 1) |->
          [time |-> data[k + period - 1].time,
           value |-> MeanToFixed2(SumClose(SubSeq(data, k, k + period - 1)), period)]]

\* calculateRSI, lines 76-90: changes[n] is the change into candle n + 1 (counting
\* from 1); the sums over the first n changes of the gains and of the absolute values
\* of the other changes
RECURSIVE RsiInitial(_, _)
RsiInitial(data, n) ==
  IF n = 0 THEN [g |-> 0, l |-> 0]
  ELSE LET a == RsiInitial(data, n - 1)
           c == data[n + 1].close.v - data[n].close.v
       IN  IF c > 0 THEN [a EXCEPT !.g = @ + c] ELSE [a EXCEPT !.l = @ - c]

\* avgGain and avgLoss after change k >= period (lines 92-105), as the numerators g
\* and l over the common denominator period ^ (k - period + 1)
RECURSIVE RsiAverages(_, _, _)
RsiAverages(data, period, k) ==
  IF k = period THEN RsiInitial(data, period)
  ELSE LET a == RsiAverages(data, period, k - 1)
           c == data[k + 1].close.v - data[k].close.v
           d == period ^ (k - period)
       IN  IF c > 0
           THEN [g |-> a.g * (period - 1) + c * d, l |-> a.l * (period - 1)]
           ELSE [g |-> a.g * (period - 1), l |-> a.l * (period - 1) - c * d]

\* lines 107-113: rs = avgLoss === 0 ? 100 : avgGain / avgLoss,
\* rsi = 100 - 100 / (1 + rs), parseFloat(rsi.toFixed(2)), in mills.  With rs = 100
\* the quotient is 99.0099...; otherwise rsi = 100 g / (g + l), to the nearest cent.
RsiValue(a) ==
  IF a.l = 0 THEN Num(99010)
  ELSE Num(((20000 * a.g + (a.g + a.l)) \div (2 * (a.g + a.l))) * 10)

\* calculateRSI(data, period); the k-th point is the loop's i = period + (k - 1)
calculateRSI(data, period) ==
  IF Len(data) < period + 1 THEN <<>>
  ELSE [k \in 1..(Len(data) - 1 - period) |->
          [time |-> data[period + k + 1].time,
           value |-> RsiValue(RsiAverages(data, period, period + k))]]

\* obv after the loop's step for candle i (lines 508-513), counted from 1.  Volumes
\* and the running total are whole numbers, not mills; data[i].volume || 1 makes a
\* volume of 0 or a missing volume count as 1.
RECURSIVE ObvTotal(_, _)
ObvTotal(data, i) ==
  IF i = 1 THEN 0
  ELSE LET obv == ObvTotal(data, i - 1)
           volume == data[i].volume
           volumeOr1 == IF volume.t = "num" /\ volume.v # 0 THEN volume.v ELSE 1
       IN  IF data[i].close.v > data[i - 1].close.v THEN obv + volumeOr1
           ELSE IF data[i].close.v < data[i - 1].close.v THEN obv - volumeOr1
           ELSE obv

\* calculateOBV(data); parseFloat(obv.toFixed(2)) of a whole number is the number
calculateOBV(data) ==
  IF Len(data) < 2 THEN <<>>
  ELSE [i \in 1..Len(data) |-> [time |-> data[i].time, value |-> Num(ObvTotal(data, i))]]

MaxCandles == 4

MaxPeriod == 3

\* closes, in mills: 10, 20, 30 and 100.01
SmaCloses == {10000, 20000, 30000, 100010}

\* the i-th candle of a series with the given closes, one bar of 900 s after the other
FlatCandle(i, close) ==
  [time |-> T0 + 900 * (i - 1),
   open |-> Num(close), high |-> Num(close), low |-> Num(close), close |-> Num(close)]

SeriesOf(closes) == [i \in DOMAIN closes |-> FlatCandle(i, closes[i])]

\* some window of the series has a mean that ends in exactly half a cent
HasTie(data, period) ==
  \E k \in 1..(Len(data) - period + 1) :
    (SumClose(SubSeq(data, k, k + period - 1)) + 5 * period) % (10 * period) = 0

\* 25 candles with close = 100 and period 20
ConstantSeries25 == [t |-> "sma", data |-> SeriesOf([i \in 1..25 |-> 100000]), period |-> 20]

SmaInputs ==
  {x \in [t : {"sma"},
          data : UNION {{SeriesOf(c) : c \in [1..n -> SmaCloses]} : n \in 0..MaxCandles},
          period : 1..MaxPeriod] : ~HasTie(x.data, x.period)}
  \cup {ConstantSeries25}

\* series with closes of 1, 2 and 3 (in mills), without those that have an output
\* point exactly half a cent between two cents
RsiInputs ==
  {x \in [t : {"rsi"},
          data : UNION {{SeriesOf(c) : c \in [1..n -> {1000, 2000, 3000}]} :
                        n \in 0..MaxCandles},
          period : 1..MaxPeriod] :
     \A k \in (x.period + 1)..(Len(x.data) - 1) :
       LET a == RsiAverages(x.data, x.period, k) IN
         a.l = 0 \/ (20000 * a.g + (a.g + a.l)) % (2 * (a.g + a.l)) # 0}

\* series of candles with a volume: a whole number, or no volume field
ObvInputs ==
  [t : {"obv"},
   data : UNION {{[i \in 1..n |->
                     [time |-> T0 + 900 * (i - 1),
                      open |-> Num(c[i].close), high |-> Num(c[i].close),
                      low |-> Num(c[i].close), close |-> Num(c[i].close),
                      volume |-> c[i].volume]] :
                    c \in [1..n -> [close : {10000, 20000},
                                    volume : {Num(0), Num(7), JUndef}]]} :
                 n \in 0..MaxCandles}]

InitI ==
  /\ vin \in SmaInputs \cup RsiInputs \cup ObvInputs
  /\ vout = <<>> /\ vdone = FALSE /\ CoIdle /\ ChIdle

ComputeSMA ==
  /\ ~vdone
  /\ vin.t = "sma"
  /\ vout' = calculateSMA(vin.data, vin.period)
  /\ vdone' = TRUE
  /\ UNCHANGED <<vin, coVars, chVars>>

ComputeRSI ==
  /\ ~vdone
  /\ vin.t = "rsi"
  /\ vout' = calculateRSI(vin.data, vin.period)
  /\ vdone' = TRUE
  /\ UNCHANGED <<vin, coVars, chVars>>

ComputeOBV ==
  /\ ~vdone
  /\ vin.t = "obv"
  /\ vout' = calculateOBV(vin.data)
  /\ vdone' = TRUE
  /\ UNCHANGED <<vin, coVars, chVars>>

NextI == ComputeSMA \/ ComputeRSI \/ ComputeOBV

SpecI == InitI /\ [][NextI]_vars

\* the number and the times of the points: none when n < p, otherwise n - p + 1,
\* the k-th at the time of candle p - 1 + k (counting candles and points from 1)
SmaShape ==
  /\ Len(vin.data) < vin.period => vout = <<>>
  /\ Len(vin.data) >= vin.period => Len(vout) = Len(vin.data) - vin.period + 1
  /\ \A k \in DOMAIN vout : vout[k].time = vin.data[k + vin.period - 1].time

\* the two examples: 25 closes of 100 with p = 20 give 6 points, all 100; closes
\* 10, 20, 30 with p = 3 give the single value 20
SmaExamples ==
  /\ vin = ConstantSeries25
     => Len(vout) = 6 /\ \A k \in DOMAIN vout : vout[k].value = Num(100000)
  /\ (vin.period = 3 /\ vin.data = SeriesOf(<<10000, 20000, 30000>>))
     => Len(vout) = 1 /\ vout[1].value = Num(20000)

C21_RsiIs100WithoutLoss ==
  (vdone /\ vin.t = "rsi") =>
    \A k \in DOMAIN vout :
      RsiAverages(vin.data, vin.period, vin.period + k).l = 0 => vout[k].value = Num(100000)

\* C22: for a series of at least 2 candles that all carry a whole volume >= 0,
\* calculateOBV returns one point per candle, the first 0, each later one the
\* previous plus the volume on a higher close, minus the volume on a lower close,
\* and the previous on an equal close.
C22_ObvRunningTotal ==
  (/\ vdone /\ vin.t = "obv"
   /\ Len(vin.data) >= 2
   /\ \A i \in DOMAIN vin.data : vin.data[i].volume.t = "num" /\ vin.data[i].volume.v >= 0)
  => /\ Len(vout) = Len(vin.data)
     /\ vout[1].value = Num(0)
     /\ \A i \in 2..Len(vout) :
          LET c == vin.data[i].close.v
              prev == vin.data[i - 1].close.v
              v == vin.data[i].volume.v
          IN  vout[i].value.v =
                vout[i - 1].value.v + (IF c > prev THEN v ELSE IF c < prev THEN 0 - v ELSE 0)

=============================================================================
